---- MODULE Spec2Model ----
(***************************************************************************)
(* The orchestration pipeline of orchestrator/main.py: module import       *)
(* (custom rule store), command-line parsing, file selection, the per-file *)
(* analyzer loop, findings aggregation, the five model-service stages and  *)
(* the report file they overwrite / append to.                             *)
(*                                                                         *)
(* Python values are modelled as follows.  None is the string "None".      *)
(* A dict read only through .get(key) is a record whose field holds "None" *)
(* when the key is missing.  Line numbers are kept as the text the report  *)
(* prints.  The report file is a sequence of chunks (Chunk), one per piece *)
(* of text written.  Wall-clock durations are left out of the two logs:    *)
(* a log entry is its label.                                               *)
(***************************************************************************)
EXTENDS Integers, Sequences, FiniteSets, TLC

VARIABLES
    pc,                 \* position of the process in main.py
    raised,             \* "none", or the exception that ended the process
    rules_file,         \* rules/custom_rules.json on disk
    custom_rules,       \* module-level custom_rules
    mode,               \* main's parameter mode
    file_target,        \* main's parameter file_target
    changed_files,      \* main's local changed_files
    idx,                \* position of the for loop over changed_files (1-based)
    all_ruff_results,   \* main's local all_ruff_results
    all_bandit_results, \* main's local all_bandit_results["results"]
    findings,           \* main's local findings
    ai_review,          \* main's local ai_review
    effort_text,        \* main's local effort_text
    performance_stats,  \* main's local performance_stats (labels)
    ai_usage_log,       \* module-level ai_usage_log (labels)
    report,             \* reports/review.md on disk
    report0,            \* reports/review.md as it was when the process started
    patches,            \* the files of patches/, name -> text
    stdout,             \* the messages printed that the claims speak of
    subprocess_calls,   \* every subprocess.run made, in order
    http_calls,         \* every requests.post made, in order
    http_results,       \* the outcome of each requests.post, in order
    ruff_log,           \* the items each run_ruff call added to all_ruff_results
    bandit_log,         \* the results each run_bandit call added to all_bandit_results
    dirs,               \* the directories of the working directory that exist
    ruff_seen,          \* per directory analysed: what ruff reported there
    bandit_seen,        \* per directory analysed: what bandit reported there
    rules_file0,        \* rules/custom_rules.json before the front end changed it
    submitted,          \* the rule texts posted to /add_rule, in order
    patches0,           \* the files of patches/ when main was called
    ai_usage_log0,      \* ai_usage_log when main was called
    clock,              \* the second int(time.time()) shows when a patch is written
    disk                \* "ok", or "readonly": writes to reports/ and patches/ fail

vars == <<pc, raised, rules_file, custom_rules, mode, file_target, changed_files,
          idx, all_ruff_results, all_bandit_results, findings, ai_review,
          effort_text, performance_stats, ai_usage_log, report, report0, patches,
          stdout, subprocess_calls, http_calls, http_results, ruff_log, bandit_log,
          dirs, ruff_seen, bandit_seen, rules_file0, submitted, patches0,
          ai_usage_log0, clock, disk>>

----------------------------------------------------------------------------
(* Bounds *)

\* The largest number of files a run selects.
MaxFiles == 2

None == "None"

----------------------------------------------------------------------------
(* The environment: what is on disk and what the external programs answer *)

\* The .py files under sample/, in rglob order, and the lines git diff --name-only
\* HEAD prints.
SampleFiles == <<"sample/a.py", "sample/sub/b.py", "sample/sub/c.py">>
GitLines == <<"README.md", "sample/sub/b.py", "sample/sub/c.py">>

\* os.path.exists for the paths a command line can name.
PyFiles == {"sample/a.py", "sample/sub/b.py", "sample/sub/c.py"}
Exists(path) == path \in PyFiles

\* pathlib.Path(p).parent
Parent(path) ==
    CASE path = "sample/a.py" -> "sample"
      [] path = "sample/sub/b.py" -> "sample/sub"
      [] path = "sample/sub/c.py" -> "sample/sub"
      [] OTHER -> "."

Prefixes(s, n) == { SubSeq(s, 1, k) : k \in 0..(IF n < Len(s) THEN n ELSE Len(s)) }

\* str.strip() on the texts of the model: the padded ones lose their padding,
\* the blank one becomes empty.
Strip(s) ==
    CASE s = " B101 assert " -> "B101 assert"
      [] s = "  No global state " -> "No global state"
      [] s = "   " -> ""
      [] OTHER -> s

\* ---- Analyzer A (ruff): what the subprocess prints ----
\* An element of the JSON array: item.get("filename"), item.get("messages", []);
\* a message: msg.get("message"), msg.get("location", {}).get("row").
RuffItemGood ==
    [type |-> "dict", filename |-> "sample/a.py",
     messages |-> << [message |-> "E501 line too long", row |-> "3"],
                     [message |-> "F401 unused import", row |-> "1"] >>]
\* A record without filename whose one message has neither message nor location.
RuffItemBare ==
    [type |-> "dict", filename |-> None,
     messages |-> << [message |-> None, row |-> None] >>]
\* What list += dict appends: a key of the dict, a str.
RuffKeyItem == [type |-> "str", filename |-> None, messages |-> << >>]

RuffItems == {RuffItemGood, RuffItemBare}

\* kind: "launch_fail" (subprocess.run raises), "not_json", "list" (the expected
\* array), "dict" (a JSON object), "scalar" (a JSON number, true, false or null).
RuffOut(kind, items) == [kind |-> kind, items |-> items]
RuffOutputs ==
    { RuffOut(k, << >>) : k \in {"launch_fail", "not_json", "dict", "scalar"} }
    \cup { RuffOut("list", << >>) }
    \cup { RuffOut("list", <<it>>) : it \in RuffItems }

\* ---- Analyzer B (bandit): what the subprocess prints ----
BanditIssueGood ==
    [type |-> "dict", filename |-> "sample/a.py",
     issue_text |-> " B101 assert ", line_number |-> "7"]
\* A result record without filename, issue_text and line_number.
BanditIssueBare ==
    [type |-> "dict", filename |-> None, issue_text |-> None, line_number |-> None]

BanditIssues == {BanditIssueGood, BanditIssueBare}

\* kind: "launch_fail", "not_json", "record" ({"results": [...]}), "other_dict"
\* (a JSON object without "results"), "list" (a JSON array), "scalar".
BanditOut(kind, results) == [kind |-> kind, results |-> results]
BanditOutputs ==
    { BanditOut(k, << >>) :
        k \in {"launch_fail", "not_json", "other_dict", "list", "scalar"} }
    \cup { BanditOut("record", << >>) }
    \cup { BanditOut("record", <<is>>) : is \in BanditIssues }

\* ---- The model service: the outcome of one requests.post ----
\* "ok": HTTP 200 with text; "empty": HTTP 200 with empty content;
\* "http500": a status other than 200; "transport": the POST raises.
\* The empty content is drawn for the call whose answer becomes a file.
Responses == {"ok", "http500", "transport"}
PatchResponses == Responses \cup {"empty"}

\* data.get("message", {}).get("content", "").strip() of the answer to fn.
ContentOf(fn, resp) == IF resp = "ok" THEN fn ELSE ""

\* ---- rules/custom_rules.json ----
RulesAbsent == [state |-> "absent", rules |-> << >>]
RulesMalformed == [state |-> "malformed", rules |-> << >>]
RulesValid == [state |-> "valid", rules |-> <<"No print statements">>]
RulesFiles == {RulesAbsent, RulesMalformed, RulesValid}

\* ---- reports/review.md ----
Chunk(kind, n, filename, line, text) ==
    [kind |-> kind, n |-> n, filename |-> filename, line |-> line, text |-> text]
Text(t) == Chunk("text", 0, "", "", t)
Rule == Chunk("rule", 0, "", "", "---")
Heading(h) == Chunk("heading", 0, "", "", h)

NoReport == [exists |-> FALSE, content |-> << >>]
OldReport == [exists |-> TRUE, content |-> << Text("review of an earlier run") >>]

\* AppendTo with the file opened in mode "w".
AppendToTruncating(rep, chunks) == [exists |-> TRUE, content |-> chunks]

\* open(path, "a").write(...): creates the file when it is absent.
AppendTo(rep, chunks) == [exists |-> TRUE, content |-> rep.content \o chunks]
\* Path.write_text(...): replaces the content.
Overwrite(rep, chunks) == [exists |-> TRUE, content |-> chunks]

----------------------------------------------------------------------------
(* Pure functions of main.py *)

EmptyDict == [has_rules |-> FALSE, rules |-> << >>]

\* load_custom_rules() on a store that json.load accepts (or that is absent).
load_custom_rules(file) ==
    IF file.state = "valid"
    THEN [has_rules |-> TRUE, rules |-> file.rules]
    ELSE EmptyDict

\* The loop over sys.argv[1:]: an argument is its flag and the text after "=".
ArgIncremental == [flag |-> "--mode=incremental", value |-> ""]
ArgFile(path) == [flag |-> "--file=", value |-> path]

RECURSIVE ParseArgs(_, _)
ParseArgs(args, acc) ==
    IF args = << >> THEN acc
    ELSE LET arg == Head(args)
             nxt == IF arg.flag = "--mode=incremental"
                    THEN [acc EXCEPT !.mode = "incremental"]
                    ELSE IF arg.flag = "--file="
                    THEN [mode |-> "file", file_target |-> arg.value]
                    ELSE acc
         IN  ParseArgs(Tail(args), nxt)

ParseArgv(args) == ParseArgs(args, [mode |-> "full", file_target |-> None])

\* Python truth of file_target: None and "" are false.
Truthy(s) == s # None /\ s # ""

\* f.endswith(".py") on the names of the model.
EndsWithPy(f) == f \in PyFiles

\* get_changed_files(): the .py lines of git's output, in order.
get_changed_files(lines) == SelectSeq(lines, EndsWithPy)

\* check_architecture_structure(): one note, whatever is missing.
RequiredDirs == <<"orchestrator", "sample", "reports">>
MissingDirs(present) == SelectSeq(RequiredDirs, LAMBDA d : d \notin present)
MissingMessage(missing) ==
    CASE missing = <<"orchestrator">> -> "Missing expected module directories: orchestrator"
      [] missing = <<"sample">> -> "Missing expected module directories: sample"
      [] missing = <<"reports">> -> "Missing expected module directories: reports"
      [] missing = <<"orchestrator", "sample">> ->
            "Missing expected module directories: orchestrator, sample"
      [] missing = <<"orchestrator", "reports">> ->
            "Missing expected module directories: orchestrator, reports"
      [] missing = <<"sample", "reports">> ->
            "Missing expected module directories: sample, reports"
      [] OTHER -> "Missing expected module directories: orchestrator, sample, reports"
\* check_architecture_structure that reports nothing when nothing is missing.
check_architecture_structure_silent(present) ==
    IF MissingDirs(present) # << >>
    THEN << MissingMessage(MissingDirs(present)) >>
    ELSE << >>

check_architecture_structure(present) ==
    IF MissingDirs(present) # << >>
    THEN << MissingMessage(MissingDirs(present)) >>
    ELSE << "Project structure follows modular architecture." >>

Finding(tool, filename, message, line) ==
    [tool |-> tool, filename |-> filename, message |-> message, line |-> line]

\* STEP 3, first loop: one finding per message of each ruff item, in order.
RECURSIVE RuffMessages(_, _)
RuffMessages(filename, msgs) ==
    IF msgs = << >> THEN << >>
    ELSE << Finding("ruff", filename, Head(msgs).message, Head(msgs).row) >>
         \o RuffMessages(filename, Tail(msgs))

RECURSIVE RuffFindings(_)
RuffFindings(items) ==
    IF items = << >> THEN << >>
    ELSE RuffMessages(Head(items).filename, Head(items).messages)
         \o RuffFindings(Tail(items))

\* STEP 3, second loop: one finding per bandit result, in order.
RECURSIVE BanditFindings(_)
BanditFindings(issues) ==
    IF issues = << >> THEN << >>
    ELSE << Finding("bandit", Head(issues).filename, Head(issues).issue_text,
                    Head(issues).line_number) >>
         \o BanditFindings(Tail(issues))

\* ArchitectureFindings for a main that leaves the notes out of the list.
ArchitectureFindingsDropped(notes) == << >>

\* STEP 3, third loop: one finding per architecture note.
RECURSIVE ArchitectureFindings(_)
ArchitectureFindings(notes) ==
    IF notes = << >> THEN << >>
    ELSE << Finding("architecture", "project", Head(notes), "0") >>
         \o ArchitectureFindings(Tail(notes))

\* GatherFindings with the bandit loop written before the ruff loop.
GatherFindingsBanditFirst(ruff, bandit, notes) ==
    BanditFindings(bandit) \o RuffFindings(ruff) \o ArchitectureFindings(notes)

\* STEP 3 as a whole.
GatherFindings(ruff, bandit, notes) ==
    RuffFindings(ruff) \o BanditFindings(bandit) \o ArchitectureFindings(notes)

\* item.get / issue.get raise AttributeError on an element that is no dict.
HasNonDict(items) == \E k \in 1..Len(items) : items[k].type # "dict"

\* The issues_text of the prompts: one line per finding, message and filename.
RECURSIVE IssuesText(_)
IssuesText(fs) ==
    IF fs = << >> THEN << >>
    ELSE << [message |-> Head(fs).message, filename |-> Head(fs).filename] >>
         \o IssuesText(Tail(fs))

\* NoFindings for a function without the early return.
NoFindingsNever(fs) == FALSE

\* "if not findings": the early return of the functions that take the list.
NoFindings(fs) == fs = << >>

\* findings[:10]
DocCap == 10
Capped(fs) == SubSeq(fs, 1, IF Len(fs) < DocCap THEN Len(fs) ELSE DocCap)

\* The numbered entries add_comment_section builds with enumerate(findings, start=1).
RECURSIVE CommentEntries(_, _)
CommentEntries(fs, i) ==
    IF fs = << >> THEN << >>
    ELSE << Chunk("entry", i, Head(fs).filename, Head(fs).line, Strip(Head(fs).message)),
            Chunk("checkbox", i, "", "", "[ ] Fixed"),
            Chunk("checkbox", i, "", "", "[ ] Not applicable"),
            Chunk("comment", i, "", "", "_Write your reply here..._") >>
         \o CommentEntries(Tail(fs), i + 1)

\* f.get("message", "").strip() raises AttributeError when the message is None.
HasNoneMessage(fs) == \E k \in 1..Len(fs) : fs[k].message = None

\* The duration timed for an entry of a log: a sample value per name, chosen
\* so that a sum tells which entries went into it.
Seconds(name) ==
    CASE name = "Ruff" -> 1
      [] name = "Bandit" -> 3
      [] name \in {"AI Review", "analyze_with_llm"} -> 10
      [] name \in {"Auto Fix", "generate_auto_fix"} -> 30
      [] name \in {"Effort Estimation", "estimate_effort"} -> 100
      [] name \in {"Document Findings", "document_findings"} -> 300
      [] OTHER -> 1000

RECURSIVE SumSeconds(_)
SumSeconds(log) ==
    IF log = << >> THEN 0 ELSE Seconds(Head(log)) + SumSeconds(Tail(log))

\* TotalTime that leaves the last entry of the log out.
TotalTimeWithoutLast(log) ==
    IF log = << >> THEN 0 ELSE SumSeconds(SubSeq(log, 1, Len(log) - 1))

\* sum(t for _, t in log)
TotalTime(log) == SumSeconds(log)

\* One "- name: t seconds" line per entry of a log.
RECURSIVE LogLines(_)
LogLines(log) ==
    IF log = << >> THEN << >>
    ELSE << Chunk("stat", Seconds(Head(log)), "", "", Head(log)) >>
         \o LogLines(Tail(log))

----------------------------------------------------------------------------
(* State changes shared by the actions *)

\* An uncaught exception ends the process: its type, the function that raised
\* it and the step of the process it was raised in.
NotRaised == [exc |-> "none", fn |-> "none", step |-> "none"]
Raise(exc, fn, step) ==
    pc' = "crashed" /\ raised' = [exc |-> exc, fn |-> fn, step |-> step]
Goto(label) == pc' = label /\ raised' = raised

Say(msg) == stdout' = Append(stdout, msg)

\* track_ai_usage(action_name, start_time)
track_ai_usage(log, action_name) == Append(log, action_name)

\* The request a call kind posts: its prompt is the rule set (narrative only)
\* and the issue lines.
Request(fn, rules, fs) == [fn |-> fn, rules |-> rules, issues |-> IssuesText(fs)]
Post(fn, rules, fs, resp) ==
    /\ http_calls' = Append(http_calls, Request(fn, rules, fs))
    /\ http_results' = Append(http_results, [fn |-> fn, resp |-> resp])

Subprocess(cmd, cwd) ==
    subprocess_calls' = Append(subprocess_calls, [cmd |-> cmd, cwd |-> cwd])

\* The seconds int(time.time()) shows when a patch is written.
ClockValues == {1700000000}

\* patch_path.write_text(patch_text): creates or replaces the file of that name.
WritePatch(files, name, text) ==
    { f \in files : f.name # name } \cup { [name |-> name, text |-> text] }

envVars == <<rules_file, report0, rules_file0, submitted, patches0, ai_usage_log0,
             clock, disk>>
inputVars == <<mode, file_target>>
analysisVars == <<changed_files, idx, all_ruff_results, all_bandit_results,
                  ruff_log, bandit_log, ruff_seen, bandit_seen>>
textVars == <<ai_review, effort_text>>
httpVars == <<http_calls, http_results>>

----------------------------------------------------------------------------
(* The process *)

ArgvSet ==
    { << >>, <<ArgIncremental>>, <<ArgFile("sample/a.py")>>, <<ArgFile("missing.py")>>,
      <<ArgFile("")>> }

GitOutputs ==
    { [kind |-> "fail", lines |-> << >>] }
    \cup { [kind |-> "ok", lines |-> l] : l \in Prefixes(GitLines, Len(GitLines)) }

AllDirs == {"orchestrator", "sample", "reports"}

\* The analysed tree does not change during a run: an analyzer that has
\* answered for a directory reports the same records when it is run there
\* again for another file of that directory.
SourceDirs == {"sample", "sample/sub"}
Unseen == [seen |-> FALSE, ext |-> << >>]
Seen(ext) == [seen |-> TRUE, ext |-> ext]
Repeats(known, ext) == ~known.seen \/ known.ext = ext

Init ==
    /\ pc = "import"
    /\ raised = NotRaised
    /\ rules_file \in RulesFiles
    /\ custom_rules = EmptyDict
    /\ mode = None
    /\ file_target = None
    /\ changed_files = << >>
    /\ idx = 1
    /\ all_ruff_results = << >>
    /\ all_bandit_results = << >>
    /\ findings = << >>
    /\ ai_review = None
    /\ effort_text = None
    /\ performance_stats = << >>
    /\ ai_usage_log = << >>
    /\ report \in {NoReport, OldReport}
    /\ report0 = report
    /\ patches = {}
    /\ stdout = << >>
    /\ subprocess_calls = << >>
    /\ http_calls = << >>
    /\ http_results = << >>
    /\ ruff_log = << >>
    /\ bandit_log = << >>
    /\ ruff_seen = [d \in SourceDirs |-> Unseen]
    /\ bandit_seen = [d \in SourceDirs |-> Unseen]
    /\ dirs = IF report.exists THEN AllDirs ELSE AllDirs \ {"reports"}
    /\ rules_file0 = rules_file
    /\ submitted = << >>
    /\ patches0 = patches
    /\ ai_usage_log0 = ai_usage_log
    /\ clock \in ClockValues
    /\ disk = "ok"

\* Module level: ai_usage_log = [] and custom_rules = load_custom_rules().
LoadModule ==
    /\ pc = "import"
    /\ IF rules_file.state = "malformed"
       THEN /\ Raise("JSONDecodeError", "load_custom_rules", "import")
            /\ UNCHANGED <<custom_rules, stdout>>
       ELSE /\ custom_rules' = load_custom_rules(rules_file)
            /\ IF load_custom_rules(rules_file).has_rules
               THEN Say("Applying custom coding rules...")
               ELSE UNCHANGED stdout
            /\ Goto("argv")
    /\ UNCHANGED <<envVars, inputVars, analysisVars, findings, textVars,
                   performance_stats, ai_usage_log, report, patches,
                   subprocess_calls, httpVars, dirs>>

\* The __main__ block: parse the command line and call main(mode, file_target).
ParseCommandLine ==
    /\ pc = "argv"
    /\ \E args \in ArgvSet :
          /\ mode' = ParseArgv(args).mode
          /\ file_target' = ParseArgv(args).file_target
    /\ Goto("select")
    /\ UNCHANGED <<envVars, custom_rules, analysisVars, findings, textVars,
                   performance_stats, ai_usage_log, report, patches, stdout,
                   subprocess_calls, httpVars, dirs>>

\* AfterChangeDetection without the early return on an empty list.
AfterChangeDetectionNoReturn(files) == "ruff"

\* main, STEP 1, incremental branch: go on when changed_files is non-empty,
\* return otherwise.
AfterChangeDetection(files) == IF files # << >> THEN "ruff" ELSE "returned"

\* main, STEP 1: decide what files to analyze.
SelectFiles ==
    /\ pc = "select"
    /\ IF mode \in {"file", "file_specific"} /\ Truthy(file_target)
       THEN IF ~Exists(file_target)
            THEN /\ Say("File not found")
                 /\ Goto("returned")
                 /\ UNCHANGED <<changed_files, subprocess_calls>>
            ELSE /\ changed_files' = <<file_target>>
                 /\ Say("Running analysis for single file")
                 /\ Goto("ruff")
                 /\ UNCHANGED subprocess_calls
       ELSE IF mode = "incremental"
       THEN \E git \in GitOutputs :
               LET files == IF git.kind = "fail" THEN << >>
                            ELSE get_changed_files(git.lines)
               IN  /\ Subprocess("git", ".")
                   /\ changed_files' = files
                   /\ IF files # << >>
                      THEN Say("Detected changed files")
                      ELSE Say("No changed files detected. Skipping analysis.")
                   /\ Goto(AfterChangeDetection(files))
       ELSE \E listing \in Prefixes(SampleFiles, MaxFiles) :
               /\ changed_files' = listing
               /\ Say("Running full analysis")
               /\ Goto("ruff")
               /\ UNCHANGED subprocess_calls
    /\ UNCHANGED <<envVars, custom_rules, inputVars, idx, all_ruff_results,
                   all_bandit_results, ruff_log, bandit_log, ruff_seen, bandit_seen,
                   findings, textVars,
                   performance_stats, ai_usage_log, report, patches, httpVars, dirs>>

\* all_ruff_results += ruff_output: the items of the list run_ruff returned
\* ([] for output that is not JSON), or the keys of a dict.
RuffExtension(out) ==
    IF out.kind = "dict" THEN <<RuffKeyItem>>
    ELSE IF out.kind = "list" THEN out.items
    ELSE << >>

\* if "results" in bandit_output: all_bandit_results["results"].extend(...)
BanditExtension(out) == IF out.kind = "record" THEN out.results ELSE << >>

\* Extended that skips the records the list already holds.
ExtendedOnce(results, ext) ==
    results \o SelectSeq(ext, LAMBDA r : \A k \in 1..Len(results) : results[k] # r)

\* all_ruff_results += ruff_output, all_bandit_results["results"].extend(...)
Extended(results, ext) == results \o ext

\* main, STEP 2, first half of the loop body: run_ruff on the file's directory.
RuffAnalysis ==
    /\ pc = "ruff"
    /\ idx <= Len(changed_files)
    /\ \E out \in RuffOutputs :
          /\ Subprocess("ruff", Parent(changed_files[idx]))
          /\ CASE out.kind = "launch_fail" ->
                    /\ Raise("FileNotFoundError", "run_command", "STEP 2")
                    /\ UNCHANGED <<performance_stats, all_ruff_results, ruff_log,
                                   ruff_seen>>
               [] out.kind = "scalar" ->
                    /\ performance_stats' = Append(performance_stats, "Ruff")
                    /\ Raise("TypeError", "main", "STEP 2")
                    /\ UNCHANGED <<all_ruff_results, ruff_log, ruff_seen>>
               [] OTHER ->
                    /\ Repeats(ruff_seen[Parent(changed_files[idx])], RuffExtension(out))
                    /\ performance_stats' = Append(performance_stats, "Ruff")
                    /\ all_ruff_results' = Extended(all_ruff_results, RuffExtension(out))
                    /\ ruff_log' = Append(ruff_log, RuffExtension(out))
                    /\ ruff_seen' = [ruff_seen EXCEPT ![Parent(changed_files[idx])] =
                                        Seen(RuffExtension(out))]
                    /\ Goto("bandit")
    /\ UNCHANGED <<envVars, custom_rules, inputVars, changed_files, idx,
                   all_bandit_results, bandit_log, bandit_seen, findings, textVars,
                   ai_usage_log,
                   report, patches, stdout, httpVars, dirs>>

\* main, STEP 2, second half of the loop body: run_bandit on the same directory.
BanditAnalysis ==
    /\ pc = "bandit"
    /\ \E out \in BanditOutputs :
          /\ Subprocess("bandit", Parent(changed_files[idx]))
          /\ CASE out.kind = "launch_fail" ->
                    /\ Raise("FileNotFoundError", "run_command", "STEP 2")
                    /\ UNCHANGED <<performance_stats, all_bandit_results, bandit_log,
                                   bandit_seen, idx>>
               [] out.kind = "scalar" ->
                    /\ performance_stats' = Append(performance_stats, "Bandit")
                    /\ Raise("TypeError", "main", "STEP 2")
                    /\ UNCHANGED <<all_bandit_results, bandit_log, bandit_seen, idx>>
               [] OTHER ->
                    /\ Repeats(bandit_seen[Parent(changed_files[idx])],
                               BanditExtension(out))
                    /\ performance_stats' = Append(performance_stats, "Bandit")
                    /\ all_bandit_results' =
                          Extended(all_bandit_results, BanditExtension(out))
                    /\ bandit_log' = Append(bandit_log, BanditExtension(out))
                    /\ bandit_seen' = [bandit_seen EXCEPT ![Parent(changed_files[idx])] =
                                          Seen(BanditExtension(out))]
                    /\ idx' = idx + 1
                    /\ Goto("ruff")
    /\ UNCHANGED <<envVars, custom_rules, inputVars, changed_files,
                   all_ruff_results, ruff_log, ruff_seen, findings, textVars,
                   ai_usage_log,
                   report, patches, stdout, httpVars, dirs>>

\* main, STEP 3: gather all findings.
Aggregate ==
    /\ pc = "ruff"
    /\ idx > Len(changed_files)
    /\ IF HasNonDict(all_ruff_results)
       THEN /\ Raise("AttributeError", "main", "STEP 3")
            /\ UNCHANGED findings
       ELSE /\ findings' = GatherFindings(all_ruff_results, all_bandit_results,
                                          check_architecture_structure(dirs))
            /\ Goto("narrative")
    /\ UNCHANGED <<envVars, custom_rules, inputVars, analysisVars, textVars,
                   performance_stats, ai_usage_log, report, patches, stdout,
                   subprocess_calls, httpVars, dirs>>

\* AnalyzeWithLLM for an analyze_with_llm that saves its answer itself.
AnalyzeWithLLMSavingReport ==
    /\ pc = "narrative"
    /\ \E resp \in Responses :
          /\ Post("analyze_with_llm", custom_rules, findings, resp)
          /\ CASE resp = "transport" ->
                    /\ Raise("ConnectionError", "analyze_with_llm", "STEP 4")
                    /\ UNCHANGED <<ai_review, ai_usage_log, performance_stats, report>>
               [] resp = "http500" ->
                    /\ ai_review' = "Error: LLM could not generate a response."
                    /\ performance_stats' = Append(performance_stats, "AI Review")
                    /\ Goto("save")
                    /\ UNCHANGED <<ai_usage_log, report>>
               [] OTHER ->
                    /\ ai_review' = ContentOf("analyze_with_llm", resp)
                    /\ report' = Overwrite(report, << Text(ai_review') >>)
                    /\ ai_usage_log' = track_ai_usage(ai_usage_log, "analyze_with_llm")
                    /\ performance_stats' = Append(performance_stats, "AI Review")
                    /\ Goto("save")
    /\ UNCHANGED <<envVars, custom_rules, inputVars, analysisVars, findings,
                   effort_text, patches, stdout, subprocess_calls, dirs>>

\* main, STEP 4: analyze_with_llm(findings) under timed_section.
AnalyzeWithLLM ==
    /\ pc = "narrative"
    /\ \E resp \in Responses :
          /\ Post("analyze_with_llm", custom_rules, findings, resp)
          /\ CASE resp = "transport" ->
                    /\ Raise("ConnectionError", "analyze_with_llm", "STEP 4")
                    /\ UNCHANGED <<ai_review, ai_usage_log, performance_stats>>
               [] resp = "http500" ->
                    /\ ai_review' = "Error: LLM could not generate a response."
                    /\ performance_stats' = Append(performance_stats, "AI Review")
                    /\ Goto("save")
                    /\ UNCHANGED ai_usage_log
               [] OTHER ->
                    /\ ai_review' = ContentOf("analyze_with_llm", resp)
                    /\ ai_usage_log' = track_ai_usage(ai_usage_log, "analyze_with_llm")
                    /\ performance_stats' = Append(performance_stats, "AI Review")
                    /\ Goto("save")
    /\ UNCHANGED <<envVars, custom_rules, inputVars, analysisVars, findings,
                   effort_text, report, patches, stdout, subprocess_calls, dirs>>

\* main, STEP 5: save_report(ai_review, "reports").
save_report ==
    /\ pc = "save"
    /\ IF disk = "ok"
       THEN /\ dirs' = dirs \cup {"reports"}
            /\ report' = Overwrite(report, << Text(ai_review) >>)
            /\ Say("Report saved")
            /\ Goto("autofix")
       ELSE /\ Raise("OSError", "save_report", "STEP 5")
            /\ UNCHANGED <<dirs, report, stdout>>
    /\ UNCHANGED <<envVars, custom_rules, inputVars, analysisVars, findings, textVars,
                   performance_stats, ai_usage_log, patches, subprocess_calls,
                   httpVars>>

\* main, STEP 6: generate_auto_fix(findings) under timed_section.
generate_auto_fix ==
    /\ pc = "autofix"
    /\ IF NoFindings(findings)
       THEN UNCHANGED <<httpVars, patches, ai_usage_log>>
       ELSE \E resp \in PatchResponses :
               /\ Post("generate_auto_fix", EmptyDict, findings, resp)
               /\ CASE resp = "transport" ->
                         /\ ai_usage_log' =
                               track_ai_usage(ai_usage_log, "generate_auto_fix")
                         /\ UNCHANGED patches
                    [] resp = "http500" ->
                         UNCHANGED <<patches, ai_usage_log>>
                    [] disk # "ok" ->
                         /\ ai_usage_log' =
                               track_ai_usage(ai_usage_log, "generate_auto_fix")
                         /\ UNCHANGED patches
                    [] OTHER ->
                         /\ patches' = WritePatch(patches, clock,
                                                  ContentOf("generate_auto_fix", resp))
                         /\ UNCHANGED ai_usage_log
    /\ performance_stats' = Append(performance_stats, "Auto Fix")
    /\ Goto("effort")
    /\ UNCHANGED <<envVars, custom_rules, inputVars, analysisVars, findings, textVars,
                   report, stdout, subprocess_calls, dirs>>

\* estimate_effort(findings): the text it returns for each outcome.
EffortText(resp) ==
    CASE resp = "transport" -> "Error while estimating effort."
      [] resp = "http500" -> "Effort estimation unavailable (error from LLM)."
      [] OTHER -> ContentOf("estimate_effort", resp)

\* main, STEP 7: estimate_effort(findings) under timed_section, then append the
\* Effort Estimation section.
estimate_effort ==
    /\ pc = "effort"
    /\ IF NoFindings(findings)
       THEN /\ effort_text' = "No issues found, no effort required."
            /\ UNCHANGED <<httpVars, ai_usage_log>>
       ELSE \E resp \in Responses :
               /\ Post("estimate_effort", EmptyDict, findings, resp)
               /\ effort_text' = EffortText(resp)
               /\ ai_usage_log' = IF resp = "transport"
                                  THEN track_ai_usage(ai_usage_log, "estimate_effort")
                                  ELSE ai_usage_log
    /\ performance_stats' = Append(performance_stats, "Effort Estimation")
    /\ IF disk = "ok"
       THEN /\ report' = AppendTo(report, << Rule, Heading("Effort Estimation"),
                                            Text(effort_text') >>)
            /\ Goto("comment")
       ELSE /\ Raise("OSError", "main", "STEP 7")
            /\ UNCHANGED report
    /\ UNCHANGED <<envVars, custom_rules, inputVars, analysisVars, findings, ai_review,
                   patches, stdout, subprocess_calls, dirs>>

\* CommentSection with enumerate(findings) left at its default start of 0.
CommentSectionFromZero(fs) ==
    << Rule, Heading("Developer Responses") >> \o CommentEntries(fs, 0)

\* The section add_comment_section writes for a non-empty findings list.
CommentSection(fs) ==
    << Rule, Heading("Developer Responses") >> \o CommentEntries(fs, 1)

\* main, STEP 8: add_comment_section(findings).
add_comment_section ==
    /\ pc = "comment"
    /\ IF NoFindings(findings)
       THEN Goto("document") /\ UNCHANGED <<report, stdout>>
       ELSE IF HasNoneMessage(findings)
       THEN /\ Raise("AttributeError", "add_comment_section", "STEP 8")
            /\ UNCHANGED <<report, stdout>>
       ELSE IF disk # "ok"
       THEN /\ Raise("OSError", "add_comment_section", "STEP 8")
            /\ UNCHANGED <<report, stdout>>
       ELSE /\ report' = AppendTo(report, CommentSection(findings))
            /\ Say("Developer comment section added.")
            /\ Goto("document")
    /\ UNCHANGED <<envVars, custom_rules, inputVars, analysisVars, findings, textVars,
                   performance_stats, ai_usage_log, patches, subprocess_calls,
                   httpVars, dirs>>

\* What main appends once a documentation call has returned: the chunks of
\* tail, or nothing.
Then(rep, tail) == IF tail = << >> \/ disk # "ok" THEN rep ELSE AppendTo(rep, tail)

\* A documentation call kind (document_findings, suggest_doc_updates): the
\* capped prompt, the section appended on HTTP 200, and track_ai_usage after
\* the try block, which the return on a status other than 200 skips.  tail is
\* what main appends once the call has returned.
DocumentationCall(fn, heading, tail) ==
    IF NoFindings(findings)
    THEN /\ report' = Then(report, tail)
         /\ UNCHANGED <<httpVars, ai_usage_log>>
    ELSE \E resp \in Responses :
            /\ Post(fn, EmptyDict, Capped(findings), resp)
            /\ CASE resp = "transport" ->
                      /\ ai_usage_log' = track_ai_usage(ai_usage_log, fn)
                      /\ report' = Then(report, tail)
                 [] resp = "http500" ->
                      /\ report' = Then(report, tail)
                      /\ UNCHANGED ai_usage_log
                 [] disk # "ok" ->
                      /\ report' = Then(report, tail)
                      /\ ai_usage_log' = track_ai_usage(ai_usage_log, fn)
                 [] OTHER ->
                      /\ report' = Then(AppendTo(report,
                                           << Rule, Heading(heading),
                                              Text(ContentOf(fn, resp)) >>), tail)
                      /\ ai_usage_log' = track_ai_usage(ai_usage_log, fn)

\* GuidelineSection under the heading of the section main wrote in STEP 7.
GuidelineSectionAsEffort ==
    << Rule, Heading("Effort Estimation"),
       Text("This review follows PEP8 and Google Python Style Guide") >>

\* The fixed guideline text main appends after document_findings.
GuidelineSection ==
    << Rule, Heading("Coding Guideline Awareness"),
       Text("This review follows PEP8 and Google Python Style Guide") >>

\* main, STEP 9: document_findings(findings) under timed_section, then append
\* the Coding Guideline Awareness section.
document_findings ==
    /\ pc = "document"
    /\ DocumentationCall("document_findings", "Documentation for Findings",
                         GuidelineSection)
    /\ performance_stats' = Append(performance_stats, "Document Findings")
    /\ IF disk = "ok" THEN Goto("suggest") ELSE Raise("OSError", "main", "STEP 9")
    /\ UNCHANGED <<envVars, custom_rules, inputVars, analysisVars, findings, textVars,
                   patches, stdout, subprocess_calls, dirs>>

\* main, STEP 10: suggest_doc_updates(findings) under timed_section.
suggest_doc_updates ==
    /\ pc = "suggest"
    /\ DocumentationCall("suggest_doc_updates", "Suggested Documentation Updates",
                         << >>)
    /\ performance_stats' = Append(performance_stats, "Doc Updates")
    /\ Goto("perf")
    /\ UNCHANGED <<envVars, custom_rules, inputVars, analysisVars, findings, textVars,
                   patches, stdout, subprocess_calls, dirs>>

\* main: write the Performance Summary section.
WritePerformanceSummary ==
    /\ pc = "perf"
    /\ IF disk = "ok"
       THEN /\ report' = AppendTo(report,
                            << Rule, Heading("Performance Summary") >>
                            \o LogLines(performance_stats)
                            \o << Chunk("total", TotalTime(performance_stats), "", "",
                                        "Total execution time") >>)
            /\ Goto("cost")
       ELSE /\ Raise("OSError", "main", "summary")
            /\ UNCHANGED report
    /\ UNCHANGED <<envVars, custom_rules, inputVars, analysisVars, findings, textVars,
                   performance_stats, ai_usage_log, patches, stdout,
                   subprocess_calls, httpVars, dirs>>

\* main: write the AI Cost Management section when ai_usage_log is not empty.
WriteAICostSummary ==
    /\ pc = "cost"
    /\ IF ai_usage_log # << >> /\ disk # "ok"
       THEN /\ Raise("OSError", "main", "summary")
            /\ UNCHANGED <<report, stdout>>
       ELSE /\ IF ai_usage_log # << >>
               THEN report' = AppendTo(report,
                                 << Rule, Heading("AI Cost Management") >>
                                 \o LogLines(ai_usage_log)
                                 \o << Chunk("total", TotalTime(ai_usage_log), "", "",
                                             "Total AI time"),
                                       Chunk("total", TotalTime(ai_usage_log), "", "",
                                             "Simulated cost") >>)
               ELSE UNCHANGED report
            /\ Say("Code review complete!")
            /\ Goto("done")
    /\ UNCHANGED <<envVars, custom_rules, inputVars, analysisVars, findings, textVars,
                   performance_stats, ai_usage_log, patches, subprocess_calls,
                   httpVars, dirs>>

Next ==
    \/ LoadModule
    \/ ParseCommandLine
    \/ SelectFiles
    \/ RuffAnalysis
    \/ BanditAnalysis
    \/ Aggregate
    \/ AnalyzeWithLLM
    \/ save_report
    \/ generate_auto_fix
    \/ estimate_effort
    \/ add_comment_section
    \/ document_findings
    \/ suggest_doc_updates
    \/ WritePerformanceSummary
    \/ WriteAICostSummary

Spec == Init /\ [][Next]_vars

----------------------------------------------------------------------------
(* Writes that fail *)

\* The file system turns read-only while main is between STEP 4 and its last
\* write: from then on mkdir, open and write_text under reports/ and patches/
\* raise OSError and leave the files as they are.
DiskGoesReadOnly ==
    /\ disk = "ok"
    /\ pc \in {"save", "autofix", "effort", "comment", "document", "suggest",
               "perf", "cost"}
    /\ disk' = "readonly"
    /\ UNCHANGED <<pc, raised, custom_rules, inputVars, analysisVars, findings,
                   textVars, performance_stats, ai_usage_log, report, report0,
                   patches, stdout, subprocess_calls, httpVars, dirs, rules_file,
                   rules_file0, submitted, patches0, ai_usage_log0, clock>>

NextIO == Next \/ DiskGoesReadOnly

SpecIO == Init /\ [][NextIO]_vars

----------------------------------------------------------------------------
(* The front end's rule store and the workspace the run starts in *)

\* The number of /add_rule requests before the run.
MaxRules == 2

\* request.form.get("rule", ""): a plain text, a padded one, a blank one.
RuleTexts == { "Use type hints", "  No global state ", "   " }

\* The list add_rule appends to: rules["rules"] of the store it could parse,
\* [] for an absent store and for one json.loads rejects.
StoredRules(file) == IF file.state = "valid" THEN file.rules ELSE << >>

\* StoreRule with the new rule inserted at the head of the list.
StoreRuleFirst(file, new_rule) ==
    [state |-> "valid", rules |-> <<new_rule>> \o StoredRules(file)]

\* rules["rules"].append(new_rule) and RULES_FILE.write_text(json.dumps(rules)).
StoreRule(file, new_rule) ==
    [state |-> "valid", rules |-> Append(StoredRules(file), new_rule)]

\* POST /add_rule of app.py, before the orchestrator is started: the rule is
\* stripped, an empty one is answered 400 and leaves the store alone.
add_rule ==
    /\ pc = "import"
    /\ Len(submitted) < MaxRules
    /\ \E rule \in RuleTexts :
          /\ submitted' = Append(submitted, rule)
          /\ rules_file' = IF Strip(rule) = ""
                           THEN rules_file
                           ELSE StoreRule(rules_file, Strip(rule))
    /\ UNCHANGED <<pc, raised, custom_rules, inputVars, analysisVars, findings,
                   textVars, performance_stats, ai_usage_log, report, report0,
                   patches, stdout, subprocess_calls, httpVars, dirs, rules_file0,
                   patches0, ai_usage_log0, clock, disk>>

\* The workspace before anything ran: any of reports/ and orchestrator/ may be
\* missing from the working directory.
InitWorkspace ==
    /\ pc = "import"
    /\ raised = NotRaised
    /\ rules_file \in RulesFiles
    /\ custom_rules = EmptyDict
    /\ mode = None
    /\ file_target = None
    /\ changed_files = << >>
    /\ idx = 1
    /\ all_ruff_results = << >>
    /\ all_bandit_results = << >>
    /\ findings = << >>
    /\ ai_review = None
    /\ effort_text = None
    /\ performance_stats = << >>
    /\ ai_usage_log = << >>
    /\ dirs \in { AllDirs \ gone : gone \in SUBSET {"orchestrator", "reports"} }
    /\ report = IF "reports" \in dirs THEN OldReport ELSE NoReport
    /\ report0 = report
    /\ patches = {}
    /\ stdout = << >>
    /\ subprocess_calls = << >>
    /\ http_calls = << >>
    /\ http_results = << >>
    /\ ruff_log = << >>
    /\ bandit_log = << >>
    /\ ruff_seen = [d \in SourceDirs |-> Unseen]
    /\ bandit_seen = [d \in SourceDirs |-> Unseen]
    /\ rules_file0 = rules_file
    /\ submitted = << >>
    /\ patches0 = patches
    /\ ai_usage_log0 = ai_usage_log
    /\ clock \in ClockValues
    /\ disk = "ok"

\* The front end's requests, then the run up to the narrative request.
NextWorkspace ==
    \/ add_rule
    \/ LoadModule
    \/ ParseCommandLine
    \/ SelectFiles
    \/ RuffAnalysis
    \/ BanditAnalysis
    \/ Aggregate
    \/ AnalyzeWithLLM

SpecWorkspace == InitWorkspace /\ [][NextWorkspace]_vars

----------------------------------------------------------------------------
(* main called again in a process that has completed a run *)

\* What the earlier run left in ai_usage_log, which only the import resets:
\* nothing (every request answered with a status other than 200), or the
\* records of a run whose requests were all answered 200.
EarlierLogs ==
    { << >>, << "analyze_with_llm", "document_findings", "suggest_doc_updates" >> }

\* What the earlier run left in patches/: nothing, or the patch it wrote from
\* the answer it got in second 1700000000.
EarlierPatch == [name |-> 1700000000, text |-> "patch of the earlier run"]
EarlierPatches == { {}, {EarlierPatch} }

\* The second in which the later run writes its patch: the same, or the next.
LaterClockValues == {1700000000, 1700000001}

\* The arguments of the second call of main.
LaterCalls ==
    { [mode |-> "full", file_target |-> None],
      [mode |-> "file", file_target |-> "sample/a.py"] }

\* main(mode, file_target) is entered a second time: the module is not
\* imported again, so custom_rules and ai_usage_log are what they were, and
\* reports/review.md and patches/ are what the earlier run left.
InitRerun ==
    /\ pc = "select"
    /\ raised = NotRaised
    /\ rules_file = RulesAbsent
    /\ custom_rules = load_custom_rules(rules_file)
    /\ \E call \in LaterCalls : mode = call.mode /\ file_target = call.file_target
    /\ changed_files = << >>
    /\ idx = 1
    /\ all_ruff_results = << >>
    /\ all_bandit_results = << >>
    /\ findings = << >>
    /\ ai_review = None
    /\ effort_text = None
    /\ performance_stats = << >>
    /\ ai_usage_log \in EarlierLogs
    /\ report = OldReport
    /\ report0 = report
    /\ patches \in EarlierPatches
    /\ stdout = << >>
    /\ subprocess_calls = << >>
    /\ http_calls = << >>
    /\ http_results = << >>
    /\ ruff_log = << >>
    /\ bandit_log = << >>
    /\ ruff_seen = [d \in SourceDirs |-> Unseen]
    /\ bandit_seen = [d \in SourceDirs |-> Unseen]
    /\ dirs = AllDirs
    /\ rules_file0 = rules_file
    /\ submitted = << >>
    /\ patches0 = patches
    /\ ai_usage_log0 = ai_usage_log
    /\ clock \in LaterClockValues
    /\ disk = "ok"

NextRerun ==
    \/ SelectFiles
    \/ RuffAnalysis
    \/ BanditAnalysis
    \/ Aggregate
    \/ AnalyzeWithLLM
    \/ save_report
    \/ generate_auto_fix
    \/ estimate_effort
    \/ add_comment_section
    \/ document_findings
    \/ suggest_doc_updates
    \/ WritePerformanceSummary
    \/ WriteAICostSummary

SpecRerun == InitRerun /\ [][NextRerun]_vars

----------------------------------------------------------------------------
(* The stage functions on any findings list *)

\* main's own list always holds the architecture note, but the functions of
\* STEP 6 to STEP 10 take the list as their argument: the lists a caller may
\* hand them, the empty one included.
StageFindings ==
    { << >>,
      GatherFindings(<<RuffItemGood>>, <<BanditIssueGood>>, << >>),
      GatherFindings(<< >>, <<BanditIssueBare>>, << >>) }

\* The state main is in after STEP 5 when STEP 3 left it the list fs and the
\* narrative request was answered.
InitStages ==
    /\ pc = "autofix"
    /\ raised = NotRaised
    /\ rules_file = RulesAbsent
    /\ custom_rules = EmptyDict
    /\ mode = "full"
    /\ file_target = None
    /\ changed_files = << >>
    /\ idx = 1
    /\ all_ruff_results = << >>
    /\ all_bandit_results = << >>
    /\ findings \in StageFindings
    /\ ai_review = ContentOf("analyze_with_llm", "ok")
    /\ effort_text = None
    /\ performance_stats = << "AI Review" >>
    /\ ai_usage_log = track_ai_usage(<< >>, "analyze_with_llm")
    /\ report0 \in {NoReport, OldReport}
    /\ report = Overwrite(report0, << Text(ai_review) >>)
    /\ patches = {}
    /\ stdout = << "Running full analysis", "Report saved" >>
    /\ subprocess_calls = << >>
    /\ http_calls = << Request("analyze_with_llm", custom_rules, findings) >>
    /\ http_results = << [fn |-> "analyze_with_llm", resp |-> "ok"] >>
    /\ ruff_log = << >>
    /\ bandit_log = << >>
    /\ ruff_seen = [d \in SourceDirs |-> Unseen]
    /\ bandit_seen = [d \in SourceDirs |-> Unseen]
    /\ dirs = AllDirs
    /\ rules_file0 = rules_file
    /\ submitted = << >>
    /\ patches0 = patches
    /\ ai_usage_log0 = << >>
    /\ clock \in ClockValues
    /\ disk = "ok"

NextStages ==
    \/ generate_auto_fix
    \/ estimate_effort
    \/ add_comment_section
    \/ document_findings
    \/ suggest_doc_updates
    \/ WritePerformanceSummary
    \/ WriteAICostSummary

SpecStages == InitStages /\ [][NextStages]_vars

----------------------------------------------------------------------------
(* Vocabulary of the properties *)

ModelServiceCalls ==
    {"analyze_with_llm", "generate_auto_fix", "estimate_effort",
     "document_findings", "suggest_doc_updates"}

IsPrefix(s, t) == Len(s) <= Len(t) /\ SubSeq(t, 1, Len(s)) = s

Range(s) == { s[k] : k \in DOMAIN s }

RECURSIVE Concat(_)
Concat(seqs) == IF seqs = << >> THEN << >> ELSE Head(seqs) \o Concat(Tail(seqs))

HasHeading(rep, h) == \E k \in 1..Len(rep.content) : rep.content[k] = Heading(h)

\* The positions of the process after selection, after aggregation, after the
\* narrative has been saved and after add_comment_section has returned.
PipelineStages ==
    {"narrative", "save", "autofix", "effort", "comment", "document", "suggest",
     "perf", "cost", "done"}
AfterSave == PipelineStages \ {"narrative", "save"}
AfterComment == {"document", "suggest", "perf", "cost", "done"}
Ended == pc \in {"done", "returned", "crashed"}

AnalyzerCalls == SelectSeq(subprocess_calls, LAMBDA c : c.cmd \in {"ruff", "bandit"})

LastResult == http_results[Len(http_results)]

\* The findings the analyzers reported, call by call.
ReportedRuff == RuffFindings(Concat(ruff_log))
ReportedBandit == BanditFindings(Concat(bandit_log))

\* The chunks of the Developer Responses section of the report.
ResponseChunks ==
    SelectSeq(report.content, LAMBDA c : c.kind \in {"entry", "checkbox", "comment"})
ResponseEntries == SelectSeq(report.content, LAMBDA c : c.kind = "entry")

----------------------------------------------------------------------------
(* Properties *)

\* C1: whenever a model-service request fails at transport level or answers a
\* status other than 200, the call returns a sentinel instead of raising: no
\* exception leaves a model-service call, so main goes on to the next stage.
C1_ServiceFailureReturnsSentinel ==
    (http_results # << >> /\ LastResult.resp \in {"transport", "http500"})
        => raised.fn \notin ModelServiceCalls

\* C2: a run whose narrative call was answered with HTTP 500 has the fixed
\* failure text as its narrative and, once it has ended, has the Performance
\* Summary section in the report.
C2_Http500StillReachesPerformanceSummary ==
    (http_results # << >> /\ http_results[1].resp = "http500")
        => /\ ai_review = "Error: LLM could not generate a response."
           /\ Ended => HasHeading(report, "Performance Summary")

\* C3: no analyzer failure (launch failure, output that is not JSON, JSON of
\* another shape) aborts main: nothing is raised in the analyzer loop (STEP 2)
\* or in the aggregation of the analyzer results (STEP 3).
C3_AnalyzerFailureNeverAborts ==
    raised.step \notin {"STEP 2", "STEP 3"}

\* C4: with rules/custom_rules.json absent or malformed, loading the rule store
\* does not fail the run: the rule set is empty and the pipeline proceeds.
C4_BadRuleStoreLoadsEmpty ==
    (rules_file.state \in {"absent", "malformed"} /\ pc # "import")
        => (custom_rules = EmptyDict /\ raised.step # "import")

\* C5: a run in file mode whose target is missing or unusable (empty) makes no
\* analyzer call and no model-service call and leaves the report file as it was.
InputError ==
    /\ pc \notin {"import", "argv"}
    /\ mode = "file"
    /\ (~Truthy(file_target) \/ ~Exists(file_target))
C5_InputErrorAbortsBeforeAnyCall ==
    InputError => (AnalyzerCalls = << >> /\ http_calls = << >> /\ report = report0)

\* C6: in incremental mode with no changed .py file the run prints the no-op
\* message and returns: no analyzer call, no model-service call, no patch
\* written, the report file neither created nor modified.
C6_NoChangedFilesIsNoOp ==
    (mode = "incremental" /\ pc \notin {"import", "argv", "select"}
        /\ changed_files = << >>)
        => /\ pc = "returned"
           /\ stdout[Len(stdout)] = "No changed files detected. Skipping analysis."
           /\ AnalyzerCalls = << >>
           /\ http_calls = << >>
           /\ patches = {}
           /\ report = report0
C6_Witness ==
    /\ mode = "incremental" /\ pc = "returned" /\ changed_files = << >>
    /\ subprocess_calls # << >> /\ report0.exists

\* C7: the aggregated findings are all ruff findings in the order the ruff
\* calls reported them, then all bandit findings in the order the bandit calls
\* reported them, then the architecture notes.
C7_AggregationOrder ==
    pc \in PipelineStages
        => LET ruff == ReportedRuff
               bandit == ReportedBandit
               a == Len(ruff)
               b == Len(bandit)
           IN  /\ Len(findings) >= a + b
               /\ SubSeq(findings, 1, a) = ruff
               /\ SubSeq(findings, a + 1, a + b) = bandit
               /\ \A k \in 1..Len(findings) :
                     findings[k].tool = IF k <= a THEN "ruff"
                                        ELSE IF k <= a + b THEN "bandit"
                                        ELSE "architecture"
\* Two files analysed, each with findings of both analyzers.
C7_Witness ==
    /\ pc = "narrative"
    /\ Len(ruff_log) = 2 /\ Len(bandit_log) = 2
    /\ \A k \in 1..2 : ruff_log[k] # << >> /\ bandit_log[k] # << >>
    /\ ruff_log[1] # ruff_log[2] /\ bandit_log[1] # bandit_log[2]

\* C8: the Developer Responses section has exactly one numbered entry per
\* aggregated finding, numbered 1..n in the list's order, entry i showing the
\* filename, line and (stripped) message of finding i, followed by the two
\* unchecked checkboxes and the comment placeholder.
C8_OneEntryPerFinding ==
    pc \in AfterComment
        => LET section == ResponseChunks
           IN  /\ HasHeading(report, "Developer Responses")
               /\ Len(section) = 4 * Len(findings)
               /\ \A i \in 1..Len(findings) :
                     /\ section[4 * i - 3] =
                           Chunk("entry", i, findings[i].filename, findings[i].line,
                                 Strip(findings[i].message))
                     /\ section[4 * i - 2] = Chunk("checkbox", i, "", "", "[ ] Fixed")
                     /\ section[4 * i - 1] =
                           Chunk("checkbox", i, "", "", "[ ] Not applicable")
                     /\ section[4 * i] =
                           Chunk("comment", i, "", "", "_Write your reply here..._")
\* A section of at least three entries, one of them with a padded message.
C8_Witness ==
    /\ pc = "document"
    /\ Len(findings) >= 3
    /\ \E i \in 1..Len(findings) : Strip(findings[i].message) # findings[i].message
    /\ Len(ResponseEntries) = Len(findings)

\* C9 as stated: with a ruff findings and b bandit findings reported, the
\* Developer Responses section has exactly a + b numbered entries.
C9_EntriesAreRuffPlusBandit ==
    pc \in AfterComment
        => Len(ResponseEntries) = Len(ReportedRuff) + Len(ReportedBandit)

\* C9 as amended: the section has exactly a + b + 1 numbered entries: the a
\* ruff findings first, then the b bandit findings, then the one architecture
\* note.
C9_EntriesAreRuffPlusBanditPlusNote ==
    pc \in AfterComment
        => LET ruff == ReportedRuff
               bandit == ReportedBandit
               entries == ResponseEntries
               a == Len(ruff)
               b == Len(bandit)
               shown(f, i) == Chunk("entry", i, f.filename, f.line, Strip(f.message))
           IN  /\ Len(entries) = a + b + 1
               /\ \A i \in 1..a : entries[i] = shown(ruff[i], i)
               /\ \A i \in 1..b : entries[a + i] = shown(bandit[i], a + i)
               /\ entries[a + b + 1].filename = "project"
\* The case of the specification: one target file, 2 ruff findings, 1 bandit
\* finding, and 4 entries.
C9_Witness ==
    /\ pc \in AfterComment
    /\ mode = "file" /\ changed_files = <<"sample/a.py">>
    /\ Len(ReportedRuff) = 2 /\ Len(ReportedBandit) = 1
    /\ Len(ResponseEntries) = 4

\* C10: save_report is the one step that replaces the content of the report;
\* every other step leaves the content a prefix of the new content, so from
\* the overwrite on the file only grows; a run that is past the narrative stage
\* has overwritten the file and still starts with the narrative.
C10_Step ==
    /\ pc # "save" => IsPrefix(report.content, report'.content)
    /\ pc = "save" => report'.content = << Text(ai_review) >>
    /\ pc \in AfterSave =>
          (Len(report'.content) >= 1 /\ report'.content[1] = Text(ai_review))
    /\ report.exists => report'.exists
C10_OverwrittenOnceThenAppended == [][C10_Step]_vars
\* A completed run over a report left by an earlier run.
C10_Witness ==
    /\ pc = "done" /\ report0.exists
    /\ HasHeading(report, "Developer Responses")
    /\ HasHeading(report, "Suggested Documentation Updates")
    /\ HasHeading(report, "AI Cost Management")
    /\ ~IsPrefix(report0.content, report.content)

\* The section headings of the report, in the order main writes them; the
\* narrative is the headless text the report starts with.
SectionOrder ==
    << "Effort Estimation", "Developer Responses", "Documentation for Findings",
       "Coding Guideline Awareness", "Suggested Documentation Updates",
       "Performance Summary", "AI Cost Management" >>
Rank(h) == CHOOSE k \in 1..Len(SectionOrder) : SectionOrder[k] = h
Headings(rep) == SelectSeq(rep.content, LAMBDA c : c.kind = "heading")

\* C11: the report of a run starts with the narrative, and the sections that
\* follow it stand in the fixed order effort estimation, developer responses,
\* findings documentation, guideline text, documentation-update suggestions,
\* performance summary, AI cost summary: a stage that degrades may leave its
\* section out, but no section comes before an earlier one or appears twice.
C11_SectionsInFixedOrder ==
    pc \in AfterSave =>
        LET hs == Headings(report)
        IN  /\ report.content[1] = Text(ai_review)
            /\ \A k \in 1..Len(hs) : hs[k].text \in Range(SectionOrder)
            /\ \A i, j \in 1..Len(hs) :
                   i < j => Rank(hs[i].text) < Rank(hs[j].text)

\* A completed run whose report holds all seven sections, and one that
\* dropped the two documentation sections and the AI cost summary.
C11_Witness ==
    /\ pc = "done"
    /\ Len(Headings(report)) = Len(SectionOrder)
C11_WitnessDropped ==
    /\ pc = "done"
    /\ Len(Headings(report)) = 4

\* The entries of a log that equal x.
Count(log, x) == Len(SelectSeq(log, LAMBDA e : e = x))
\* The requests of call kind fn that reached requests.post, whatever came back.
Contacts(fn) == Len(SelectSeq(http_results, LAMBDA r : r.fn = fn))
\* The name main gives the duration of call kind fn in performance_stats.
StatName(fn) ==
    CASE fn = "analyze_with_llm" -> "AI Review"
      [] fn = "generate_auto_fix" -> "Auto Fix"
      [] fn = "estimate_effort" -> "Effort Estimation"
      [] fn = "document_findings" -> "Document Findings"
      [] fn = "suggest_doc_updates" -> "Doc Updates"
\* The records track_ai_usage added since main was called.
RunUsage == SubSeq(ai_usage_log, Len(ai_usage_log0) + 1, Len(ai_usage_log))

\* C12: every invocation of a model-service call kind that contacts the
\* service is recorded exactly once in performance_stats and exactly once in
\* ai_usage_log, whether the service answered 200, another status, or the
\* request failed at transport level.
C12_EveryContactInBothLogs ==
    \A fn \in ModelServiceCalls :
        Contacts(fn) > 0 =>
            /\ Count(performance_stats, StatName(fn)) = Contacts(fn)
            /\ Count(RunUsage, fn) = Contacts(fn)

\* The same, for the half of the claim that is about performance_stats, in
\* runs that no exception ended.
C12_EveryContactInPerformanceStats ==
    pc # "crashed" =>
        \A fn \in ModelServiceCalls :
            Contacts(fn) > 0 => Count(performance_stats, StatName(fn)) = Contacts(fn)

\* The names of the files of patches/.
Names(files) == { f.name : f \in files }
\* The answers the generate_auto_fix requests of this run got.
AutoFixResults == SelectSeq(http_results, LAMBDA r : r.fn = "generate_auto_fix")

\* C13: generate_auto_fix leaves a patch file exactly when its request was
\* answered 200 with content that is not empty, and then exactly one new file,
\* named by the clock; answered another status, failing at transport level or
\* answered with empty content, it leaves patches/ as it was.
C13_PatchExactlyOnNonEmptySuccess ==
    AutoFixResults # << >> =>
        IF AutoFixResults[1].resp = "ok"
        THEN /\ Names(patches) \ Names(patches0) = {clock}
             /\ \A f \in patches : f.name = clock => f.text # ""
        ELSE patches = patches0

\* C14: called with an empty findings list, generate_auto_fix sends no request
\* and leaves patches/ as it is, and estimate_effort sends no request and
\* returns exactly "No issues found, no effort required.".
C14_Step ==
    findings = << >> =>
        /\ pc = "autofix" => (http_calls' = http_calls /\ patches' = patches)
        /\ pc = "effort" =>
              /\ http_calls' = http_calls
              /\ effort_text' = "No issues found, no effort required."
C14_EmptyFindingsNoContact == [][C14_Step]_vars

\* Both functions have returned from a call with the empty list.
C14_Witness ==
    /\ findings = << >>
    /\ pc = "comment"
    /\ effort_text = "No issues found, no effort required."
    /\ Contacts("generate_auto_fix") = 0
    /\ Contacts("estimate_effort") = 0
    /\ patches = patches0

\* The submitted rules that are not the empty string, as submitted.
RECURSIVE NonEmpty(_)
NonEmpty(rules) ==
    IF rules = << >> THEN << >>
    ELSE (IF Head(rules) = "" THEN << >> ELSE << Head(rules) >>) \o NonEmpty(Tail(rules))
\* The submitted rules that are not empty once stripped, stripped.
RECURSIVE Accepted(_)
Accepted(rules) ==
    IF rules = << >> THEN << >>
    ELSE (IF Strip(Head(rules)) = "" THEN << >> ELSE << Strip(Head(rules)) >>)
         \o Accepted(Tail(rules))
\* The requests of the narrative call.
NarrativeCalls == SelectSeq(http_calls, LAMBDA c : c.fn = "analyze_with_llm")

\* C15 as stated: after add_rule requests with non-empty rules the store holds
\* the list stored before followed by the submitted rules, in order, each
\* verbatim; a run started afterwards loads exactly that list and its
\* narrative request embeds it in order.
C15_StoredVerbatim ==
    submitted # << >> =>
        LET expected == StoredRules(rules_file0) \o NonEmpty(submitted)
        IN  /\ StoredRules(rules_file) = expected
            /\ pc \notin {"import", "crashed"} => custom_rules.rules = expected
            /\ \A k \in 1..Len(NarrativeCalls) :
                   NarrativeCalls[k].rules.rules = expected

\* C15 amended: the rules are stored stripped of surrounding whitespace, and
\* a rule that is empty once stripped is rejected.  After add_rule requests of
\* which at least one was accepted, the store is a valid record whose list is
\* the list stored before (empty for an absent or unparseable store) followed
\* by the accepted rules, stripped, in order; the run started afterwards
\* loads exactly that list and its narrative request embeds it in order.
C15_StoredStripped ==
    Accepted(submitted) # << >> =>
        LET expected == StoredRules(rules_file0) \o Accepted(submitted)
        IN  /\ rules_file.state = "valid"
            /\ rules_file.rules = expected
            /\ pc # "import" =>
                  /\ raised.step # "import"
                  /\ custom_rules = [has_rules |-> TRUE, rules |-> expected]
            /\ \A k \in 1..Len(NarrativeCalls) :
                   NarrativeCalls[k].rules.rules = expected

\* Two rules, one of them padded, were added to a store that held one, and
\* the narrative request of the run started afterwards was sent.
C15_Witness ==
    /\ rules_file0 = RulesValid
    /\ submitted = << "  No global state ", "Use type hints" >>
    /\ pc = "save"
    /\ NarrativeCalls # << >>
    /\ NarrativeCalls[1].rules.rules =
          << "No print statements", "No global state", "Use type hints" >>

\* C16: a failure to write the report or a patch file, at whatever stage, is
\* logged and not raised further: no OSError ends main, which goes on to the
\* stages that follow.
C16_WriteFailureNotFatal == raised.exc # "OSError"

\* The part of it that holds: the writes inside generate_auto_fix,
\* document_findings and suggest_doc_updates stand in their try blocks.
C16_WriteFailureInsideCallIsCaught ==
    raised.fn \notin {"generate_auto_fix", "document_findings", "suggest_doc_updates"}
C16_CaughtWitness ==
    /\ disk = "readonly"
    /\ pc = "perf"
    /\ Contacts("suggest_doc_updates") = 1
    /\ http_results[Len(http_results)].resp = "ok"

\* The findings of the structural check in the aggregated list.
ArchitectureEntries == SelectSeq(findings, LAMBDA f : f.tool = "architecture")

\* C17: the structural check yields one architecture finding per missing
\* required directory: with k >= 1 of them missing the aggregated findings
\* hold exactly k findings of tool "architecture", with none missing exactly
\* one, the confirming note.
C17_OneFindingPerMissingDirectory ==
    pc \in {"narrative", "save"} =>
        LET k == Len(MissingDirs(dirs))
        IN  Len(ArchitectureEntries) = (IF k = 0 THEN 1 ELSE k)

\* What the code does instead: one finding whatever k is, whose message names
\* every missing directory or confirms the structure.
C17_OneFindingNamingAllMissing ==
    pc \in {"narrative", "save"} =>
        /\ Len(ArchitectureEntries) = 1
        /\ ArchitectureEntries[1].message = check_architecture_structure(dirs)[1]
C17_TwoMissingWitness ==
    /\ pc = "narrative"
    /\ Len(MissingDirs(dirs)) = 2

\* C18: an analyzer record that lacks its filename, message or location still
\* becomes a finding of the common shape, with the "unknown" default in place
\* of the missing filename or message, and no later stage that reads the
\* finding (the prompts, add_comment_section, the documentation calls) raises
\* on it.
C18_MissingFieldsDefaultAndPass ==
    /\ \A k \in 1..Len(findings) :
           /\ DOMAIN findings[k] = {"tool", "filename", "message", "line"}
           /\ findings[k].filename # None
           /\ findings[k].message # None
    /\ ~(raised.exc = "AttributeError" /\ raised.step = "STEP 8")

\* The half that holds: every finding has the four fields, and the prompt
\* builders and documentation calls do not raise on a None field.
C18_CommonShapeAndPromptsPass ==
    /\ \A k \in 1..Len(findings) :
           DOMAIN findings[k] = {"tool", "filename", "message", "line"}
    /\ raised.fn \notin ModelServiceCalls \/ raised.exc = "ConnectionError"

\* C19: a patch file is never changed once written: whatever the second in
\* which a later invocation of generate_auto_fix writes, the same as an
\* earlier one included, the files earlier invocations wrote stay as they
\* are, and a successful invocation adds a file of its own.
C19_PatchesNeverOverwritten ==
    /\ patches0 \subseteq patches
    /\ (AutoFixResults # << >> /\ AutoFixResults[1].resp = "ok")
          => Cardinality(patches) = Cardinality(patches0) + 1

\* The part that holds: a later invocation in another second adds its file
\* and leaves the earlier one alone.
C19_DistinctSecondsKeepBoth ==
    clock \notin Names(patches0) => C19_PatchesNeverOverwritten
C19_DistinctWitness ==
    /\ patches0 = {EarlierPatch}
    /\ Cardinality(patches) = 2

\* The lines of the AI Cost Management section of the report.
CostLines ==
    LET c == report.content
        at == { k \in 1..Len(c) : c[k] = Heading("AI Cost Management") }
    IN  IF at = {} THEN << >>
        ELSE SelectSeq(SubSeq(c, (CHOOSE k \in at : TRUE) + 1, Len(c)),
                       LAMBDA x : x.kind = "stat")

\* C20: the usage records belong to one run: when main is executed again in
\* the same process, the AI cost summary of the later run has one line per
\* record of that run and none for a record of the earlier run.
C20_CostSummaryOfThisRunOnly ==
    pc = "done" => CostLines = LogLines(RunUsage)

\* What the code writes instead: every record since the import.
C20_CostSummaryOfWholeProcess ==
    pc = "done" => CostLines = LogLines(ai_usage_log)
C20_EarlierRecordsWitness ==
    /\ pc = "done"
    /\ ai_usage_log0 # << >>
    /\ RunUsage # << >>

\* The names main gives the timed stages: a pair per selected file, then the
\* five model-service stages.
RECURSIVE AnalyzerPairs(_)
AnalyzerPairs(n) == IF n = 0 THEN << >> ELSE << "Ruff", "Bandit" >> \o AnalyzerPairs(n - 1)
ServiceStages ==
    << "AI Review", "Auto Fix", "Effort Estimation", "Document Findings", "Doc Updates" >>
ExpectedStats == AnalyzerPairs(Len(changed_files)) \o ServiceStages

\* The chunks of the Performance Summary section: from its heading to the
\* next heading or the end of the report.
PerformanceSection ==
    LET c == report.content
        at == { k \in 1..Len(c) : c[k] = Heading("Performance Summary") }
        from == (CHOOSE k \in at : TRUE) + 1
        next == { k \in from..Len(c) : c[k].kind = "rule" }
        to == IF next = {} THEN Len(c) ELSE (CHOOSE k \in next : \A j \in next : k <= j) - 1
    IN  IF at = {} THEN << >> ELSE SubSeq(c, from, to)
RECURSIVE SumOfLines(_)
SumOfLines(chunks) ==
    IF chunks = << >> THEN 0 ELSE Head(chunks).n + SumOfLines(Tail(chunks))

C21_Log ==
    /\ IsPrefix(performance_stats, ExpectedStats)
    /\ pc \in {"perf", "cost", "done"} =>
          /\ performance_stats = ExpectedStats
          /\ Len(performance_stats) = 2 * Len(changed_files) + 5
    /\ pc \in {"cost", "done"} =>
          LET lines == SelectSeq(PerformanceSection, LAMBDA x : x.kind = "stat")
              total == SelectSeq(PerformanceSection, LAMBDA x : x.kind = "total")
          IN  /\ PerformanceSection = lines \o total
              /\ Len(lines) = Len(performance_stats)
              /\ \A k \in 1..Len(lines) :
                     /\ lines[k].text = performance_stats[k]
                     /\ lines[k].n = Seconds(performance_stats[k])
              /\ Len(total) = 1
              /\ total[1].n = SumOfLines(lines)
C21_Step == IsPrefix(performance_stats, performance_stats')

\* C21: performance_stats holds every timed stage in execution order and an
\* entry, once appended, is never changed: for n selected files it is a
\* (Ruff, Bandit) pair per file followed by AI Review, Auto Fix, Effort
\* Estimation, Document Findings and Doc Updates, 2n + 5 entries in a
\* completed run, and the Performance Summary section has one line per entry
\* in that order and a total that is the sum of the entries.
C21_StageTimingLog == [](C21_Log) /\ [][C21_Step]_vars

\* A completed run over two files: nine entries, nine lines and the total.
C21_Witness ==
    /\ pc = "done"
    /\ Len(changed_files) = 2
    /\ Len(performance_stats) = 9
    /\ Len(PerformanceSection) = 10

\* The analyzer calls a loop over the files makes: ruff, then bandit, each in
\* the directory of the file.
RECURSIVE CallsPerFile(_)
CallsPerFile(files) ==
    IF files = << >> THEN << >>
    ELSE << [cmd |-> "ruff", cwd |-> Parent(Head(files))],
            [cmd |-> "bandit", cwd |-> Parent(Head(files))] >>
         \o CallsPerFile(Tail(files))
\* What an analyzer reported for the directory of each file, file by file.
RECURSIVE PerFile(_, _)
PerFile(files, seen) ==
    IF files = << >> THEN << >>
    ELSE seen[Parent(Head(files))].ext \o PerFile(Tail(files), seen)
\* The selected files that lie in directory d.
FilesIn(d) == SelectSeq(changed_files, LAMBDA f : Parent(f) = d)
\* The findings of a tool in the aggregated list.
FindingsOf(tool) == SelectSeq(findings, LAMBDA f : f.tool = tool)

C23_FindingsNeverEmptyInARun ==
    pc \in PipelineStages =>
        /\ findings # << >>
        /\ findings[Len(findings)].tool = "architecture"
        /\ Len(ArchitectureEntries) = 1
        /\ pc \in AfterSave \ {"autofix"} => Contacts("generate_auto_fix") = 1
        /\ pc \in AfterSave \ {"autofix", "effort"} => Contacts("estimate_effort") = 1
        /\ pc \in AfterComment => HasHeading(report, "Developer Responses")
        /\ pc \in AfterComment \ {"document"} => Contacts("document_findings") = 1
        /\ pc \in {"perf", "cost", "done"} => Contacts("suggest_doc_updates") = 1

\* A completed run in which both analyzers reported nothing: one finding,
\* five requests.
C23_Witness ==
    /\ pc = "done"
    /\ changed_files # << >>
    /\ all_ruff_results = << >>
    /\ all_bandit_results = << >>
    /\ Len(findings) = 1
    /\ Len(http_calls) = 5

\* Where a run is while the narrative call has not returned and been saved,
\* and where it ends when it ends before that.
BeforeSave ==
    \/ pc \in {"import", "argv", "select", "ruff", "bandit", "narrative", "save",
                "returned"}
    \/ pc = "crashed" /\ raised.step \in {"import", "STEP 2", "STEP 3", "STEP 4"}
C24_Step == pc = "autofix" => report' = report

\* C24: nothing before save_report writes the report: selection, the analyzer
\* calls, aggregation and the narrative request leave reports/review.md as it
\* was, so a run that returns early or that an exception ends before the
\* narrative call has returned leaves the report of an earlier run intact;
\* and generate_auto_fix does not write the report.
C24_ReportUntouchedBeforeSave ==
    [](BeforeSave => report = report0) /\ [][C24_Step]_vars

\* A run over a workspace that holds an earlier report, ended by the
\* narrative request raising; and a run that has passed generate_auto_fix.
C24_Witness ==
    /\ pc = "crashed"
    /\ raised.step = "STEP 4"
    /\ report0 = OldReport
    /\ report = OldReport
C24_AutoFixWitness ==
    /\ pc = "effort"
    /\ patches # {}

====
